---- MODULE Spec2Model ----
(***************************************************************************)
(* Geom3D training glue: the model factory model_setup (defined twice, in  *)
(* pl_model.py and in train_models.py), the Lightning adapter Pymodel and  *)
(* the driver main of train_models.py.                                     *)
(*                                                                         *)
(* Tensors are records [shape, data]: shape is the sequence of dimension   *)
(* sizes and data the row-major sequence of (integer) entries.  A Python   *)
(* call's outcome is a record [ok, exc, value]: ok = FALSE is a raised     *)
(* exception of class exc.                                                 *)
(***************************************************************************)
EXTENDS Integers, Sequences, FiniteSets, TLC

\* ------------------------------------------------------------- bounds ----
MaxWidth == 2      \* emb_dim, num_tasks, out_channels, num_targets range over 1..MaxWidth
MaxB     == 3      \* graphs per batch range over 1..MaxB

Seeds == {0, 1}    \* selects the entries of a batch's tensors

\* ------------------------------------------------------ Python values ----
None == [cls |-> "None"]

Ok(v)      == [ok |-> TRUE,  exc |-> "",  value |-> v]
Raise(exc) == [ok |-> FALSE, exc |-> exc, value |-> None]

\* ------------------------------------------------------ configuration ----
Supported == {"SchNet", "DimeNet", "DimeNetPlusPlus", "GemNet", "SphereNet"}

\* model_name strings a configuration file may hold: the five supported ones
\* and some that no branch of model_setup matches.
ModelNames == Supported \cup {"PaiNN", "schnet", ""}

\* The keys of config["model"] whose value decides a tensor width.
WidthKeys == {"emb_dim", "num_tasks", "out_channels", "num_targets"}

ModelKeys ==
    { "emb_dim", "num_tasks", "node_class",
      "SchNet_num_filters", "SchNet_num_interactions", "SchNet_num_gaussians",
      "SchNet_cutoff", "SchNet_readout",
      "hidden_channels", "out_channels", "num_blocks", "num_bilinear",
      "num_spherical", "num_radial", "cutoff", "envelope_exponent",
      "num_before_skip", "num_after_skip", "num_output_layers",
      "int_emb_size", "basis_emb_size", "out_emb_channels",
      "num_targets", "emb_size_atom", "emb_size_edge", "emb_size_trip",
      "emb_size_quad", "emb_size_rbf", "emb_size_cbf", "emb_size_sbf",
      "emb_size_bil_quad", "emb_size_bil_trip", "num_concat", "num_atom",
      "triplets_only", "direct_forces", "extensive", "forces_coupled",
      "int_cutoff", "num_layers", "basis_emb_size_dist",
      "basis_emb_size_angle", "basis_emb_size_torsion" }

\* A configuration record as read_config returns it, cut to what main and
\* model_setup read: every key of config["model"] other than the width keys
\* holds the value 3.
Configs ==
    { [ model_name     |-> n,
        model          |-> [k \in ModelKeys |-> IF k \in WidthKeys THEN w[k] ELSE 3],
        model_path     |-> mp,
        pl_model_chkpt |-> ck ] :
      n \in ModelNames, w \in [WidthKeys -> 1..MaxWidth],
      mp \in BOOLEAN, ck \in BOOLEAN }

\* ------------------------------------------------------ model factory ----
\* A constructor call: keyword arguments given as <<keyword, key>> pairs are
\* read from model_config, those given as <<keyword, value>> literals are not.
Construct(cls, model_config, fromKeys, literals) ==
    [ cls     |-> cls,
      kwargs  |-> [kw \in {p[1] : p \in fromKeys \cup literals} |->
                     IF \E p \in literals : p[1] = kw
                     THEN (CHOOSE p \in literals : p[1] = kw)[2]
                     ELSE model_config[(CHOOSE p \in fromKeys : p[1] = kw)[2]]],
      bound   |-> fromKeys,
      reads   |-> {p[2] : p \in fromKeys},
      weights |-> "initial" ]

\* torch.nn.Linear(in_features, out_features)
Linear(in_features, out_features) ==
    [cls |-> "Linear", in_features |-> in_features, out_features |-> out_features]

\* What a call of model_setup does: its outcome (the pair, or the exception),
\* the external constructors it ran, in order, and the keys it read.
SetupResult(outcome, constructed, configReads, modelReads) ==
    [ outcome     |-> outcome,
      constructed |-> constructed,
      configReads |-> configReads,
      modelReads  |-> modelReads ]

Same(keys) == {<<k, k>> : k \in keys}

DimeNetCommon ==
    { "node_class", "hidden_channels", "out_channels", "num_blocks",
      "num_spherical", "num_radial", "cutoff", "envelope_exponent",
      "num_before_skip", "num_after_skip", "num_output_layers" }

\* What a branch of model_setup returns, with what it did.
Built(model, head, constructed, headKeys) ==
    SetupResult(Ok(<<model, head>>), constructed,
                {"model", "model_name"}, model.reads \cup headKeys)

\* The branches of model_setup of train_models.py.
\* SchNetBranch with hidden_channels read from the key of its own name.
SchNetBranchOwnKey(model_config) ==
    LET model == Construct("SchNet", model_config,
            { <<"hidden_channels", "hidden_channels">>,
              <<"num_filters", "SchNet_num_filters">>,
              <<"num_interactions", "SchNet_num_interactions">>,
              <<"num_gaussians", "SchNet_num_gaussians">>,
              <<"cutoff", "SchNet_cutoff">>,
              <<"readout", "SchNet_readout">>,
              <<"node_class", "node_class">> }, {})
        graph_pred_linear ==
            Linear(model_config["emb_dim"], model_config["num_tasks"])
    IN Built(model, graph_pred_linear, <<"SchNet", "Linear">>, {"emb_dim", "num_tasks"})

SchNetBranch(model_config) ==
    LET model == Construct("SchNet", model_config,
            { <<"hidden_channels", "emb_dim">>,
              <<"num_filters", "SchNet_num_filters">>,
              <<"num_interactions", "SchNet_num_interactions">>,
              <<"num_gaussians", "SchNet_num_gaussians">>,
              <<"cutoff", "SchNet_cutoff">>,
              <<"readout", "SchNet_readout">>,
              <<"node_class", "node_class">> }, {})
        graph_pred_linear ==
            Linear(model_config["emb_dim"], model_config["num_tasks"])
    IN Built(model, graph_pred_linear, <<"SchNet", "Linear">>, {"emb_dim", "num_tasks"})

\* DimeNetBranch keeping the projection head of the branch above it.
DimeNetBranchWithHead(model_config) ==
    LET model == Construct("DimeNet", model_config,
            Same(DimeNetCommon \cup {"num_bilinear"}), {})
    IN Built(model, Linear(model_config["emb_dim"], model_config["num_tasks"]),
             <<"DimeNet", "Linear">>, {"emb_dim", "num_tasks"})

DimeNetBranch(model_config) ==
    LET model == Construct("DimeNet", model_config,
            Same(DimeNetCommon \cup {"num_bilinear"}), {})
    IN Built(model, None, <<"DimeNet">>, {})

DimeNetPlusPlusBranch(model_config) ==
    LET model == Construct("DimeNetPlusPlus", model_config,
            Same(DimeNetCommon \cup
                 {"int_emb_size", "basis_emb_size", "out_emb_channels"}), {})
    IN Built(model, None, <<"DimeNetPlusPlus">>, {})

GemNetBranch(model_config) ==
    LET model == Construct("GemNet", model_config,
            Same({ "node_class", "num_targets", "num_blocks",
                   "emb_size_atom", "emb_size_edge", "emb_size_trip",
                   "emb_size_quad", "emb_size_rbf", "emb_size_cbf",
                   "emb_size_sbf", "emb_size_bil_quad", "emb_size_bil_trip",
                   "num_concat", "num_atom", "triplets_only",
                   "direct_forces", "extensive", "forces_coupled",
                   "cutoff", "int_cutoff", "envelope_exponent",
                   "num_spherical", "num_radial", "num_before_skip",
                   "num_after_skip" }), {})
    IN Built(model, None, <<"GemNet">>, {})

SphereNetBranch(model_config) ==
    LET model == Construct("SphereNet", model_config,
            Same({ "hidden_channels", "out_channels", "cutoff",
                   "num_layers", "int_emb_size", "basis_emb_size_dist",
                   "basis_emb_size_angle", "basis_emb_size_torsion",
                   "out_emb_channels", "num_spherical", "num_radial",
                   "envelope_exponent", "num_before_skip",
                   "num_after_skip", "num_output_layers" }),
            { <<"energy_and_force", 0>> })
    IN Built(model, None, <<"SphereNet">>, {})

InvalidModelName ==
    SetupResult(Raise("ValueError: Invalid model name"), <<>>,
                {"model", "model_name"}, {})

\* model_setup whose last branch is a bare else: an unmatched name gets SphereNet.
model_setup_default(config) ==
    LET model_config == config.model
    IN IF config.model_name = "SchNet" THEN SchNetBranch(model_config)
       ELSE IF config.model_name = "DimeNet" THEN DimeNetBranch(model_config)
       ELSE IF config.model_name = "DimeNetPlusPlus" THEN DimeNetPlusPlusBranch(model_config)
       ELSE IF config.model_name = "GemNet" THEN GemNetBranch(model_config)
       ELSE SphereNetBranch(model_config)

\* model_setup of train_models.py, the one main calls.
model_setup(config) ==
    LET model_config == config.model
    IN IF config.model_name = "SchNet" THEN SchNetBranch(model_config)
       ELSE IF config.model_name = "DimeNet" THEN DimeNetBranch(model_config)
       ELSE IF config.model_name = "DimeNetPlusPlus" THEN DimeNetPlusPlusBranch(model_config)
       ELSE IF config.model_name = "GemNet" THEN GemNetBranch(model_config)
       ELSE IF config.model_name = "SphereNet" THEN SphereNetBranch(model_config)
       ELSE InvalidModelName

\* model_setup of pl_model.py, keyword by keyword in the order of the source.
pl_model_setup(config) ==
    LET model_config == config.model
        name == config.model_name
        kw(pairs) == {<<pairs[i][1], pairs[i][2]>> : i \in DOMAIN pairs}
        ret(model, graph_pred_linear, ctors, headKeys) ==
            Built(model, graph_pred_linear, ctors, headKeys)
    IN
    CASE name = "SchNet" ->
            ret(Construct("SchNet", model_config, kw(<<
                    <<"hidden_channels", "emb_dim">>,
                    <<"num_filters", "SchNet_num_filters">>,
                    <<"num_interactions", "SchNet_num_interactions">>,
                    <<"num_gaussians", "SchNet_num_gaussians">>,
                    <<"cutoff", "SchNet_cutoff">>,
                    <<"readout", "SchNet_readout">>,
                    <<"node_class", "node_class">> >>), {}),
                Linear(model_config["emb_dim"], model_config["num_tasks"]),
                <<"SchNet", "Linear">>, {"emb_dim", "num_tasks"})
      [] name = "DimeNet" ->
            ret(Construct("DimeNet", model_config, kw(<<
                    <<"node_class", "node_class">>,
                    <<"hidden_channels", "hidden_channels">>,
                    <<"out_channels", "out_channels">>,
                    <<"num_blocks", "num_blocks">>,
                    <<"num_bilinear", "num_bilinear">>,
                    <<"num_spherical", "num_spherical">>,
                    <<"num_radial", "num_radial">>,
                    <<"cutoff", "cutoff">>,
                    <<"envelope_exponent", "envelope_exponent">>,
                    <<"num_before_skip", "num_before_skip">>,
                    <<"num_after_skip", "num_after_skip">>,
                    <<"num_output_layers", "num_output_layers">> >>), {}),
                None, <<"DimeNet">>, {})
      [] name = "DimeNetPlusPlus" ->
            ret(Construct("DimeNetPlusPlus", model_config, kw(<<
                    <<"node_class", "node_class">>,
                    <<"hidden_channels", "hidden_channels">>,
                    <<"out_channels", "out_channels">>,
                    <<"num_blocks", "num_blocks">>,
                    <<"int_emb_size", "int_emb_size">>,
                    <<"basis_emb_size", "basis_emb_size">>,
                    <<"out_emb_channels", "out_emb_channels">>,
                    <<"num_spherical", "num_spherical">>,
                    <<"num_radial", "num_radial">>,
                    <<"cutoff", "cutoff">>,
                    <<"envelope_exponent", "envelope_exponent">>,
                    <<"num_before_skip", "num_before_skip">>,
                    <<"num_after_skip", "num_after_skip">>,
                    <<"num_output_layers", "num_output_layers">> >>), {}),
                None, <<"DimeNetPlusPlus">>, {})
      [] name = "GemNet" ->
            ret(Construct("GemNet", model_config, kw(<<
                    <<"node_class", "node_class">>,
                    <<"num_targets", "num_targets">>,
                    <<"num_blocks", "num_blocks">>,
                    <<"emb_size_atom", "emb_size_atom">>,
                    <<"emb_size_edge", "emb_size_edge">>,
                    <<"emb_size_trip", "emb_size_trip">>,
                    <<"emb_size_quad", "emb_size_quad">>,
                    <<"emb_size_rbf", "emb_size_rbf">>,
                    <<"emb_size_cbf", "emb_size_cbf">>,
                    <<"emb_size_sbf", "emb_size_sbf">>,
                    <<"emb_size_bil_quad", "emb_size_bil_quad">>,
                    <<"emb_size_bil_trip", "emb_size_bil_trip">>,
                    <<"num_concat", "num_concat">>,
                    <<"num_atom", "num_atom">>,
                    <<"triplets_only", "triplets_only">>,
                    <<"direct_forces", "direct_forces">>,
                    <<"extensive", "extensive">>,
                    <<"forces_coupled", "forces_coupled">>,
                    <<"cutoff", "cutoff">>,
                    <<"int_cutoff", "int_cutoff">>,
                    <<"envelope_exponent", "envelope_exponent">>,
                    <<"num_spherical", "num_spherical">>,
                    <<"num_radial", "num_radial">>,
                    <<"num_before_skip", "num_before_skip">>,
                    <<"num_after_skip", "num_after_skip">> >>), {}),
                None, <<"GemNet">>, {})
      [] name = "SphereNet" ->
            ret(Construct("SphereNet", model_config, kw(<<
                    <<"hidden_channels", "hidden_channels">>,
                    <<"out_channels", "out_channels">>,
                    <<"cutoff", "cutoff">>,
                    <<"num_layers", "num_layers">>,
                    <<"int_emb_size", "int_emb_size">>,
                    <<"basis_emb_size_dist", "basis_emb_size_dist">>,
                    <<"basis_emb_size_angle", "basis_emb_size_angle">>,
                    <<"basis_emb_size_torsion", "basis_emb_size_torsion">>,
                    <<"out_emb_channels", "out_emb_channels">>,
                    <<"num_spherical", "num_spherical">>,
                    <<"num_radial", "num_radial">>,
                    <<"envelope_exponent", "envelope_exponent">>,
                    <<"num_before_skip", "num_before_skip">>,
                    <<"num_after_skip", "num_after_skip">>,
                    <<"num_output_layers", "num_output_layers">> >>),
                    { <<"energy_and_force", 0>> }),
                None, <<"SphereNet">>, {})
      [] OTHER -> InvalidModelName

\* ------------------------------------------------------------ tensors ----
RECURSIVE Prod(_, _)
\* The product of the dimensions shape[from..Len(shape)].
Prod(shape, from) ==
    IF from > Len(shape) THEN 1 ELSE shape[from] * Prod(shape, from + 1)

Numel(shape) == Prod(shape, 1)

Tensor(shape, data) == [shape |-> shape, data |-> data]

\* Tensor.squeeze(): every dimension of size 1 is removed.
squeeze(t) == Tensor(SelectSeq(t.shape, LAMBDA d : d # 1), t.data)

\* Tensor.unsqueeze(dim): a dimension of size 1 is inserted at index dim.
unsqueeze(t, dim) ==
    Tensor(SubSeq(t.shape, 1, dim) \o <<1>> \o SubSeq(t.shape, dim + 1, Len(t.shape)),
           t.data)

Max(a, b) == IF a >= b THEN a ELSE b

\* A shape padded on the left with 1s to rank r.
Pad(shape, r) ==
    [i \in 1..r |-> IF i <= r - Len(shape) THEN 1 ELSE shape[i - (r - Len(shape))]]

Broadcastable(s1, s2) ==
    LET r == Max(Len(s1), Len(s2))
    IN \A i \in 1..r :
          \/ Pad(s1, r)[i] = Pad(s2, r)[i]
          \/ Pad(s1, r)[i] = 1
          \/ Pad(s2, r)[i] = 1

BroadcastShape(s1, s2) ==
    LET r == Max(Len(s1), Len(s2))
    IN [i \in 1..r |-> Max(Pad(s1, r)[i], Pad(s2, r)[i])]

RECURSIVE Offset(_, _, _, _)
\* The row-major offset in a tensor of shape `own` (padded to the rank of
\* `out`) of the entry that entry k (from 0) of the broadcast result reads.
Offset(own, out, k, i) ==
    IF i > Len(out) THEN 0
    ELSE LET idx == (k \div Prod(out, i + 1)) % out[i]
         IN (IF own[i] = 1 THEN 0 ELSE idx) * Prod(own, i + 1)
            + Offset(own, out, k, i + 1)

Expand(t, out) ==
    [k \in 1..Numel(out) |-> t.data[Offset(Pad(t.shape, Len(out)), out, k - 1, 1) + 1]]

RECURSIVE SumSq(_, _, _)
SumSq(a, b, k) ==
    IF k = 0 THEN 0 ELSE (a[k] - b[k]) * (a[k] - b[k]) + SumSq(a, b, k - 1)

\* torch.nn.functional.mse_loss(input, target), reduction "mean": the operands
\* are broadcast against each other (an error when they cannot be); the result
\* is the 0-dimensional tensor sum((input - target)^2) / numel, kept as the
\* fraction num/den.
mse_loss(input, target) ==
    IF ~Broadcastable(input.shape, target.shape)
    THEN Raise("RuntimeError")
    ELSE LET out == BroadcastShape(input.shape, target.shape)
         IN Ok([ shape |-> <<>>,
                 num   |-> SumSq(Expand(input, out), Expand(target, out), Numel(out)),
                 den   |-> Numel(out) ])


\* ------------------------------------------------------------ batches ----
\* A batch of B graphs over nodes atoms: y is the target, one entry per graph;
\* x, positions and batch are per-atom fields, passed on by name.
Batch(B, nodes, seed) ==
    [ num_graphs |-> B,
      num_nodes  |-> nodes,
      seed       |-> seed,
      y          |-> Tensor(<<B>>, [i \in 1..B |-> (seed + i) % 2]) ]

Batches == { Batch(B, B + extra, seed) : B \in 1..MaxB, extra \in {0, 1}, seed \in Seeds }

\* batch.size(0) of a torch_geometric batch: the number of its nodes.
size(batch, dim) == batch.num_nodes

\* --------------------------------------------------- external modules ----
\* The width of the last dimension of what a geom3d model returns.
OutWidth(model) ==
    CASE model.cls = "SchNet" -> model.kwargs["hidden_channels"]
      [] model.cls = "GemNet" -> model.kwargs["num_targets"]
      [] OTHER                -> model.kwargs["out_channels"]

\* model(x, positions, batch): one row per graph.  The entries stand in for
\* the network's arithmetic: a fixed function of the batch.
Repr(model, batch) ==
    LET shape == <<batch.num_graphs, OutWidth(model)>>
    IN Tensor(shape, [k \in 1..Numel(shape) |-> (batch.seed + k) % 3])

\* linear(z) for z of shape (B, in_features): shape (B, out_features).
ApplyLinear(linear, z) ==
    LET shape == <<z.shape[1], linear.out_features>>
    IN Tensor(shape, [k \in 1..Numel(shape) |-> (z.data[1] + 2 * k) % 3])

\* ------------------------------------------------------------ Pymodel ----
Pymodel(model, graph_pred_linear) ==
    [ molecule_3D_repr  |-> model,
      graph_pred_linear |-> graph_pred_linear ]

Call(fn, args) == [fn |-> fn, args |-> args]

ReprCall == Call("molecule_3D_repr", <<"x", "positions", "batch">>)

\* What a method call of the adapter does: its outcome, the calls it made in
\* order, the two operands it handed to mse_loss (None when it made no such
\* call) and what it logged.
Done(outcome, calls, input, target, logs) ==
    [ outcome |-> outcome, calls |-> calls,
      input |-> input, target |-> target, logs |-> logs ]

\* _get_preds_loss_accuracy with the same target handling in both branches.
get_preds_loss_accuracy_unsqueezed(self, batch) ==
    LET z0     == Repr(self.molecule_3D_repr, batch)
        target == unsqueeze(batch.y, 1)
    IN IF self.graph_pred_linear # None THEN
           LET z == ApplyLinear(self.graph_pred_linear, z0)
           IN Done(mse_loss(z, target),
                   << ReprCall, Call("graph_pred_linear", <<"z">>),
                      Call("unsqueeze", <<"y", "1">>), Call("mse_loss", <<"z", "y">>) >>,
                   z, target, <<>>)
       ELSE Done(mse_loss(z0, target),
                 << ReprCall, Call("unsqueeze", <<"y", "1">>),
                    Call("mse_loss", <<"z", "y">>) >>,
                 z0, target, <<>>)

get_preds_loss_accuracy(self, batch) ==
    IF self.graph_pred_linear # None THEN
        LET z0     == Repr(self.molecule_3D_repr, batch)
            z      == ApplyLinear(self.graph_pred_linear, z0)
            target == unsqueeze(batch.y, 1)
        IN Done(mse_loss(z, target),
                << ReprCall, Call("graph_pred_linear", <<"z">>),
                   Call("unsqueeze", <<"y", "1">>), Call("mse_loss", <<"z", "y">>) >>,
                z, target, <<>>)
    ELSE
        LET z == squeeze(Repr(self.molecule_3D_repr, batch))
        IN Done(mse_loss(z, batch.y),
                << ReprCall, Call("squeeze", <<"z">>), Call("mse_loss", <<"z", "y">>) >>,
                z, batch.y, <<>>)

LogEntry(key, value, batch_size) ==
    [key |-> key, value |-> value, batch_size |-> batch_size]

\* An exception raised by _get_preds_loss_accuracy leaves the step before it
\* logs or returns.
training_step(self, batch) ==
    LET r == get_preds_loss_accuracy(self, batch)
    IN IF ~r.outcome.ok THEN r
       ELSE [r EXCEPT !.logs = << LogEntry("train_loss", r.outcome.value, size(batch, 0)) >>]

validation_step(self, batch) ==
    LET r == get_preds_loss_accuracy(self, batch)
    IN IF ~r.outcome.ok THEN r
       ELSE [r EXCEPT !.logs = << LogEntry("val_loss", r.outcome.value, size(batch, 0)) >>]

\* nn.Module.parameters(): the parameters of every registered submodule; an
\* attribute holding None registers nothing.
parameters(self) ==
    {<<"molecule_3D_repr", self.molecule_3D_repr.cls>>}
    \cup (IF self.graph_pred_linear = None THEN {}
          ELSE {<<"graph_pred_linear", "weight">>, <<"graph_pred_linear", "bias">>})

\* configure_optimizers over the parameters of the wrapped model alone.
configure_optimizers_repr_only(self) ==
    [ cls |-> "Adam", params |-> {<<"molecule_3D_repr", self.molecule_3D_repr.cls>>},
      lr  |-> [mantissa |-> 5, exponent |-> -4] ]

\* lr = 5e-4 is kept as mantissa and decimal exponent.
configure_optimizers(self) ==
    [ cls |-> "Adam", params |-> parameters(self),
      lr  |-> [mantissa |-> 5, exponent |-> -4] ]

\* Calling self.graph_pred_linear when it is None raises TypeError
\* ('NoneType' object is not callable).
forward(self, batch) ==
    LET z == Repr(self.molecule_3D_repr, batch)
    IN IF self.graph_pred_linear = None
       THEN Done(Raise("TypeError"), << ReprCall, Call("graph_pred_linear", <<"z">>) >>,
                 None, None, <<>>)
       ELSE Done(Ok(ApplyLinear(self.graph_pred_linear, z)),
                 << ReprCall, Call("graph_pred_linear", <<"z">>) >>, None, None, <<>>)

\* -------------------------------------------------------------- state ----
VARIABLES
    config,            \* the configuration record main read
    pc,                \* where main is
    trace,             \* the calls main has made, in order
    setup,             \* what the call of model_setup did (None before it)
    model,             \* main's local model
    graph_pred_linear, \* main's local graph_pred_linear
    pymodel,           \* main's local pymodel_SCHNET
    optimizer,         \* what configure_optimizers returned to the trainer
    error,             \* the exception that left main ("" when none)
    last               \* the adapter method called last: [op, batch, result]

vars == <<config, pc, trace, setup, model, graph_pred_linear, pymodel,
          optimizer, error, last>>

NoCall == [op |-> "none", batch |-> None, result |-> None]

Init ==
    /\ config \in Configs
    /\ pc = "start"
    /\ trace = <<>>
    /\ setup = None
    /\ model = None
    /\ graph_pred_linear = None
    /\ pymodel = None
    /\ optimizer = None
    /\ error = ""
    /\ last = NoCall

\* ----------------------------------------------------------- main ----
\* read_config, the seeding, load_data and train_val_split.
MainPrepare ==
    /\ pc = "start"
    /\ trace' = trace \o <<"read_config", "seed", "load_data", "train_val_split">>
    /\ pc' = "prepared"
    /\ UNCHANGED <<config, setup, model, graph_pred_linear, pymodel, optimizer, error, last>>

\* MainModelSetup with the exception swallowed: main goes on without a model.
MainModelSetupSwallowed ==
    /\ pc = "prepared"
    /\ LET r == model_setup(config)
       IN /\ setup' = r
          /\ model' = IF r.outcome.ok THEN r.outcome.value[1] ELSE None
          /\ graph_pred_linear' = IF r.outcome.ok THEN r.outcome.value[2] ELSE None
          /\ trace' = trace \o <<"model_setup", "print">>
          /\ pc' = "model_ready"
    /\ UNCHANGED <<config, pymodel, optimizer, error, last>>

\* model, graph_pred_linear = model_setup(config); print(...)
MainModelSetup ==
    /\ pc = "prepared"
    /\ LET r == model_setup(config)
       IN /\ setup' = r
          /\ IF r.outcome.ok
             THEN /\ model' = r.outcome.value[1]
                  /\ graph_pred_linear' = r.outcome.value[2]
                  /\ trace' = trace \o <<"model_setup", "print">>
                  /\ pc' = "model_ready"
                  /\ error' = error
             ELSE /\ trace' = Append(trace, "model_setup")
                  /\ pc' = "failed"
                  /\ error' = r.outcome.exc
                  /\ UNCHANGED <<model, graph_pred_linear>>
    /\ UNCHANGED <<config, pymodel, optimizer, last>>

\* load_3d_rpr(model, path): the model it was given, holding the stored weights.
load_3d_rpr(m, model_path) == [m EXCEPT !.weights = "pretrained"]

\* if config["model_path"]: model = load_3d_rpr(...); os.chdir; wandb.login.
MainEnvironment ==
    /\ pc = "model_ready"
    /\ model' = IF config.model_path THEN load_3d_rpr(model, config.model_path) ELSE model
    /\ trace' = trace \o (IF config.model_path THEN <<"load_3d_rpr">> ELSE <<>>)
                      \o <<"os.chdir", "wandb.login">>
    /\ pc' = "env_ready"
    /\ UNCHANGED <<config, setup, graph_pred_linear, pymodel, optimizer, error, last>>

\* The adapters a checkpoint may hold: any pair the factory returns.
Restorable ==
    { Pymodel(r.outcome.value[1], r.outcome.value[2]) :
        r \in { model_setup([config EXCEPT !.model_name = n]) : n \in Supported } }

\* MainAdapter building the fresh adapter first and then restoring over it.
MainAdapterFreshFirst ==
    /\ pc = "env_ready"
    /\ IF config.pl_model_chkpt
       THEN /\ trace' = trace \o <<"Pymodel", "os.path.exists", "Pymodel.load_from_checkpoint">>
            /\ pymodel' \in Restorable
       ELSE /\ trace' = trace \o <<"Pymodel", "os.path.exists">>
            /\ pymodel' = Pymodel(model, graph_pred_linear)
    /\ pc' = "adapter_ready"
    /\ UNCHANGED <<config, setup, model, graph_pred_linear, optimizer, error, last>>

\* if os.path.exists(config["pl_model_chkpt"]): load_from_checkpoint, which
\* returns the restored adapter or raises; else Pymodel(model, graph_pred_linear).
MainAdapter ==
    /\ pc = "env_ready"
    /\ IF config.pl_model_chkpt
       THEN /\ trace' = trace \o <<"os.path.exists", "Pymodel.load_from_checkpoint">>
            /\ \/ /\ pymodel' \in Restorable
                  /\ pc' = "adapter_ready"
                  /\ error' = error
               \/ /\ pymodel' = pymodel
                  /\ pc' = "failed"
                  /\ error' = "CheckpointError"
       ELSE /\ trace' = trace \o <<"os.path.exists", "Pymodel">>
            /\ pymodel' = Pymodel(model, graph_pred_linear)
            /\ pc' = "adapter_ready"
            /\ error' = error
    /\ UNCHANGED <<config, setup, model, graph_pred_linear, optimizer, last>>

\* WandbLogger, log_hyperparams, ModelCheckpoint, pl.Trainer.
MainTrainer ==
    /\ pc = "adapter_ready"
    /\ trace' = trace \o <<"WandbLogger", "log_hyperparams", "ModelCheckpoint", "Trainer">>
    /\ pc' = "trainer_ready"
    /\ UNCHANGED <<config, setup, model, graph_pred_linear, pymodel, optimizer, error, last>>

\* trainer.fit(model=pymodel_SCHNET, ...) starts: the trainer asks the
\* adapter for its optimizer.
FitStart ==
    /\ pc = "trainer_ready"
    /\ trace' = Append(trace, "trainer.fit")
    /\ optimizer' = configure_optimizers(pymodel)
    /\ pc' = "fitting"
    /\ UNCHANGED <<config, setup, model, graph_pred_linear, pymodel, error, last>>

\* A method of the adapter called by the trainer during the fit.  The loss it
\* returns stays inside the trainer; an exception it raises leaves trainer.fit
\* and main.
Called(op, batch, result) ==
    /\ IF result.outcome.ok
       THEN UNCHANGED <<pc, error, last>>
       ELSE /\ pc' = "failed"
            /\ error' = result.outcome.exc
            /\ last' = [op |-> op, batch |-> batch, result |-> result]
    /\ UNCHANGED <<config, trace, setup, model, graph_pred_linear, pymodel, optimizer>>

TrainingStep ==
    /\ pc = "fitting"
    /\ \E batch \in Batches : Called("training_step", batch, training_step(pymodel, batch))

ValidationStep ==
    /\ pc = "fitting"
    /\ \E batch \in Batches : Called("validation_step", batch, validation_step(pymodel, batch))

\* trainer.fit returns; wandb.finish; the timing print.
FitEnd ==
    /\ pc = "fitting"
    /\ trace' = trace \o <<"wandb.finish", "print">>
    /\ pc' = "done"
    /\ UNCHANGED <<config, setup, model, graph_pred_linear, pymodel, optimizer, error, last>>

Next ==
    \/ MainPrepare
    \/ MainModelSetup
    \/ MainEnvironment
    \/ MainAdapter
    \/ MainTrainer
    \/ FitStart
    \/ TrainingStep
    \/ ValidationStep
    \/ FitEnd

Spec == Init /\ [][Next]_vars

\* ------------------------------------------------- the adapter alone ----
\* Every adapter built from a pair the factory returns, and the calls a
\* trainer or a caller makes on it.
AdapterInit ==
    /\ config \in {c \in Configs : c.model_name \in Supported
                                   /\ ~c.model_path /\ ~c.pl_model_chkpt}
    /\ pc = "adapter"
    /\ trace = <<>>
    /\ setup = model_setup(config)
    /\ model = setup.outcome.value[1]
    /\ graph_pred_linear = setup.outcome.value[2]
    /\ pymodel = Pymodel(model, graph_pred_linear)
    /\ optimizer = None
    /\ error = ""
    /\ last = NoCall

\* A call of a method of the adapter: last holds the call and what it did
\* until the caller has taken the result.
Invoke(op, batch, result) ==
    /\ pc = "adapter"
    /\ last = NoCall
    /\ last' = [op |-> op, batch |-> batch, result |-> result]
    /\ UNCHANGED <<config, pc, trace, setup, model, graph_pred_linear, pymodel,
                   optimizer, error>>

CallTrainingStep ==
    \E batch \in Batches : Invoke("training_step", batch, training_step(pymodel, batch))

CallValidationStep ==
    \E batch \in Batches : Invoke("validation_step", batch, validation_step(pymodel, batch))

CallGetPredsLoss ==
    \E batch \in Batches :
        Invoke("_get_preds_loss_accuracy", batch, get_preds_loss_accuracy(pymodel, batch))

CallForward ==
    \E batch \in Batches : Invoke("forward", batch, forward(pymodel, batch))

CallConfigureOptimizers ==
    /\ pc = "adapter"
    /\ optimizer = None
    /\ optimizer' = configure_optimizers(pymodel)
    /\ UNCHANGED <<config, pc, trace, setup, model, graph_pred_linear, pymodel,
                   error, last>>

\* The caller takes the result of the call.
Return ==
    /\ pc = "adapter"
    /\ last # NoCall
    /\ last' = NoCall
    /\ UNCHANGED <<config, pc, trace, setup, model, graph_pred_linear, pymodel,
                   optimizer, error>>

AdapterNext ==
    \/ CallTrainingStep
    \/ CallValidationStep
    \/ CallGetPredsLoss
    \/ CallForward
    \/ CallConfigureOptimizers
    \/ Return

AdapterSpec == AdapterInit /\ [][AdapterNext]_vars

\* ------------------------------------------------------------- claims ----
InTrace(call) == \E i \in DOMAIN trace : trace[i] = call

PairOf(r) == r.outcome.value

\* The pair the claim C1 describes: the model is of the class named, and the
\* head is a linear layer for "SchNet" and None for the other names.
RightPair(r, name) ==
    /\ r.outcome.ok
    /\ PairOf(r)[1].cls = name
    /\ r.constructed[1] = name
    /\ (PairOf(r)[2].cls = "Linear") <=> (name = "SchNet")
    /\ (name # "SchNet") => (PairOf(r)[2] = None)

\* C1: for each of the five supported names, model_setup (the one main runs
\* and the one of pl_model.py) returns a model of the class of that name,
\* with a linear head exactly when the name is "SchNet" and None otherwise.
C1_FactoryPair ==
    (setup # None /\ config.model_name \in Supported) =>
        /\ RightPair(setup, config.model_name)
        /\ RightPair(pl_model_setup(config), config.model_name)
        /\ model.cls = config.model_name
        /\ (pc = "model_ready") => (model = PairOf(setup)[1])
        /\ graph_pred_linear = PairOf(setup)[2]

C1_Witness ==
    /\ pc = "model_ready"
    /\ config.model_name = "DimeNet"
    /\ model.cls = "DimeNet"
    /\ graph_pred_linear = None

\* A call of model_setup that raised ValueError("Invalid model name") having
\* built nothing.
FailedFast(r) ==
    /\ ~r.outcome.ok
    /\ r.outcome.exc = "ValueError: Invalid model name"
    /\ r.outcome.value = None
    /\ r.constructed = <<>>

\* C2: for every model_name outside the five supported strings, model_setup
\* raises ValueError("Invalid model name"), returns nothing and has run no
\* external constructor; main is left holding no model.
C2_InvalidNameRaises ==
    (setup # None /\ config.model_name \notin Supported) =>
        /\ FailedFast(setup)
        /\ FailedFast(pl_model_setup(config))
        /\ model = None
        /\ graph_pred_linear = None
        /\ error = "ValueError: Invalid model name"

C2_Witness ==
    /\ pc = "failed"
    /\ config.model_name = "PaiNN"
    /\ ~setup.outcome.ok

\* C3 (as claimed): forward returns a prediction tensor for every adapter the
\* factory's pairs give, the four with no head included; for the scalar
\* targets of the spec's scenario (one output per graph) the prediction has
\* the shape of the target after its handling, (B, 1) beside a head.
C3_ForwardPredicts ==
    (last.op = "forward") =>
        /\ last.result.outcome.ok
        /\ (pymodel.graph_pred_linear.out_features = 1) =>
              last.result.outcome.value.shape = <<last.batch.num_graphs, 1>>

Count(calls, c) == Cardinality({i \in DOMAIN calls : calls[i] = c})

\* C4: _get_preds_loss_accuracy calls the model once, on (x, positions,
\* batch); with a head it takes the mean-squared error of head(model(...)) and
\* y with a trailing dimension of 1 added; with no head, of model(...) with its
\* dimensions of 1 removed and y as it is.
C4_LossBranches ==
    (last.op = "_get_preds_loss_accuracy") =>
        LET r   == last.result
            b   == last.batch
            out == Repr(pymodel.molecule_3D_repr, b)
        IN /\ Count(r.calls, ReprCall) = 1
           /\ r.calls[1] = ReprCall
           /\ \A i \in DOMAIN r.calls :
                 r.calls[i].fn = "molecule_3D_repr" => r.calls[i] = ReprCall
           /\ r.outcome = mse_loss(r.input, r.target)
           /\ IF pymodel.graph_pred_linear # None
              THEN /\ r.input = ApplyLinear(pymodel.graph_pred_linear, out)
                   /\ r.target.shape = <<b.num_graphs, 1>>
                   /\ r.target.data = b.y.data
              ELSE /\ r.input.data = out.data
                   /\ \A i \in DOMAIN r.input.shape : r.input.shape[i] # 1
                   /\ Numel(r.input.shape) = Numel(out.shape)
                   /\ r.target = b.y

C4_Witness ==
    /\ last.op = "_get_preds_loss_accuracy"
    /\ pymodel.graph_pred_linear = None
    /\ last.result.outcome.ok
    /\ last.result.outcome.value.num > 0

LossOps == {"training_step", "validation_step", "_get_preds_loss_accuracy"}

\* C5 (as claimed): the two operands handed to mse_loss have the same shape,
\* for every batch size from 1 on and every configured width.
C5_SameOperandShapes ==
    (last.op \in LossOps) => (last.result.input.shape = last.result.target.shape)

\* C6: in a run that reaches trainer.fit, either the checkpoint path existed,
\* load_from_checkpoint gave the adapter and Pymodel(model, graph_pred_linear)
\* was not constructed, or it did not exist, the adapter is the fresh
\* Pymodel(model, graph_pred_linear) and load_from_checkpoint was not called.
C6_RestoreOrConstruct ==
    InTrace("trainer.fit") =>
        IF config.pl_model_chkpt
        THEN /\ InTrace("Pymodel.load_from_checkpoint")
             /\ ~InTrace("Pymodel")
             /\ pymodel \in Restorable
        ELSE /\ InTrace("Pymodel")
             /\ ~InTrace("Pymodel.load_from_checkpoint")
             /\ pymodel = Pymodel(model, graph_pred_linear)

C6_Witness ==
    /\ pc = "fitting"
    /\ config.pl_model_chkpt
    /\ pymodel # Pymodel(model, graph_pred_linear)

StepKey(op) == IF op = "training_step" THEN "train_loss" ELSE "val_loss"

\* C7 (as claimed): training_step and validation_step return, for every
\* batch, one non-negative scalar, the result of _get_preds_loss_accuracy on
\* that batch, the same for both steps, and log it once under "train_loss"
\* or "val_loss" with batch_size = batch.size(0).
C7_StepsReturnLoss ==
    (last.op \in {"training_step", "validation_step"}) =>
        LET r == last.result
        IN /\ r.outcome.ok
           /\ r.outcome.value.shape = <<>>
           /\ r.outcome.value.num >= 0
           /\ r.outcome.value.den > 0
           /\ r.outcome = get_preds_loss_accuracy(pymodel, last.batch).outcome
           /\ r.outcome = training_step(pymodel, last.batch).outcome
           /\ r.outcome = validation_step(pymodel, last.batch).outcome
           /\ r.logs = << LogEntry(StepKey(last.op), r.outcome.value,
                                   last.batch.num_nodes) >>

\* C8: configure_optimizers returns one Adam optimizer over the parameters of
\* the wrapped model and, when there is one, of the head, with lr = 5e-4
\* whatever the configuration and the adapter.
C8_OneAdamOptimizer ==
    (optimizer # None) =>
        /\ optimizer.cls = "Adam"
        /\ optimizer.lr = [mantissa |-> 5, exponent |-> -4]
        /\ <<"molecule_3D_repr", pymodel.molecule_3D_repr.cls>> \in optimizer.params
        /\ (pymodel.graph_pred_linear # None) =>
              {<<"graph_pred_linear", "weight">>, <<"graph_pred_linear", "bias">>}
                  \subseteq optimizer.params
        /\ Cardinality(optimizer.params) =
              IF pymodel.graph_pred_linear # None THEN 3 ELSE 1

C8_Witness ==
    /\ optimizer # None
    /\ pymodel.graph_pred_linear # None
    /\ Cardinality(optimizer.params) = 3

LaterSteps ==
    { "print", "load_3d_rpr", "os.chdir", "wandb.login", "os.path.exists",
      "Pymodel.load_from_checkpoint", "Pymodel", "WandbLogger", "log_hyperparams",
      "ModelCheckpoint", "Trainer", "trainer.fit", "wandb.finish" }

\* C9: with an unrecognized model_name, main runs config reading, seeding,
\* data loading and the split as for any name, then model_setup raises and the
\* ValueError leaves main: none of the later steps ever runs.
C9_InvalidNameFailsFast ==
    (config.model_name \notin Supported) =>
        /\ \A c \in LaterSteps : ~InTrace(c)
        /\ pc \in {"start", "prepared", "failed"}
        /\ pymodel = None /\ optimizer = None
        /\ (pc # "start") =>
              SubSeq(trace, 1, 4) = <<"read_config", "seed", "load_data", "train_val_split">>
        /\ (pc = "failed") =>
              /\ error = "ValueError: Invalid model name"
              /\ trace = <<"read_config", "seed", "load_data", "train_val_split",
                           "model_setup">>

C9_Witness ==
    /\ config.model_name \notin Supported
    /\ pc = "failed"
    /\ trace[Len(trace)] = "model_setup"

SchNetKeys ==
    { "emb_dim", "num_tasks", "node_class", "SchNet_num_filters",
      "SchNet_num_interactions", "SchNet_num_gaussians", "SchNet_cutoff",
      "SchNet_readout" }

\* C10: the two definitions of model_setup do the same on every configuration:
\* the same outcome (the same class built from the same keywords bound to the
\* same keys, the same head, or the same ValueError), the same constructors
\* run and the same keys read; only the "SchNet" branch reads the SchNet keys,
\* and an unrecognized name reads no key of config["model"].
C10_SetupsEquivalent ==
    (setup # None) =>
        LET a == setup
            b == pl_model_setup(config)
        IN /\ a = b
           /\ a.outcome.ok = b.outcome.ok
           /\ a.outcome.ok =>
                 /\ PairOf(a)[1].bound = PairOf(b)[1].bound
                 /\ PairOf(a)[1].kwargs = PairOf(b)[1].kwargs
                 /\ PairOf(a)[2] = PairOf(b)[2]
           /\ a.configReads = {"model", "model_name"}
           /\ b.configReads = {"model", "model_name"}
           /\ (config.model_name = "SchNet") =>
                 /\ b.modelReads = SchNetKeys
                 /\ PairOf(b)[2] = Linear(config.model["emb_dim"], config.model["num_tasks"])
           /\ (config.model_name \in Supported \ {"SchNet"}) =>
                 b.modelReads \cap (SchNetKeys \ {"node_class"}) = {}
           /\ (config.model_name \notin Supported) => b.modelReads = {}

C10_Witness ==
    /\ setup # None
    /\ config.model_name = "SchNet"
    /\ setup.outcome.ok
    /\ setup = pl_model_setup(config)
    /\ config.model["emb_dim"] # config.model["hidden_channels"]

====
